---- MODULE Spec2Model ----
(***************************************************************************)
(* A model of src/src/bit-vector.h: the fixed-length BitVector with its    *)
(* iterator, and the GrowableBitVector that wraps it.                      *)
(*                                                                         *)
(* A machine word (uintptr_t) is modelled as the set of its bit positions  *)
(* that are 1, a subset of 0..kDataBits-1: bit k of the word is set iff k  *)
(* is in the set.  |, &, ~ are then union, intersection and complement,    *)
(* and val >> n moves every position down by n and drops those below n.    *)
(* The word array data_ is a function on 0..data_length_-1.                *)
(***************************************************************************)
EXTENDS Integers, Sequences, FiniteSets, TLC

(***************************************************************************)
(* Program constants.                                                      *)
(***************************************************************************)
kPointerSize == 4
kDataBits == kPointerSize * 8
kInitialLength == 1024

Bits == 0 .. (kDataBits - 1)
kOne == {0}
AllOnes == Bits

(***************************************************************************)
(* Bounds of the model.                                                    *)
(***************************************************************************)
SmallLength == 10
MaxLength == 40
\* a value between two capacities of a growable vector
HighValue == 2000
\* the capacities considered are kInitialLength * 2^k for k up to this
MaxDoublings == 3
\* the explicit initial lengths of a growable vector
MaxInitialLength == 3
\* the values added to a growable vector constructed with a length
MaxValue == 9

(***************************************************************************)
(* Word arithmetic.                                                        *)
(***************************************************************************)
ShiftLeft(val, n) == {k + n : k \in {x \in val : x + n < kDataBits}}
ShiftRight(val, n) == {k - n : k \in {x \in val : x >= n}}
BitAnd(v, w) == v \cap w
BitOr(v, w) == v \cup w
BitNot(v) == Bits \ v

(***************************************************************************)
(* BitVector.                                                              *)
(***************************************************************************)
SizeFor(length) ==
  IF length = 0 THEN 1 ELSE 1 + ((length - 1) \div kDataBits)

\* for (i < data_length_) data_[i] = 0
Clear(bv) ==
  [bv EXCEPT !.data_ = [i \in 0 .. (bv.data_length_ - 1) |-> {}]]

\* BitVector(int length, Zone* zone): allocates SizeFor(length) words, Clear()
NewBitVector(length) ==
  Clear([length_ |-> length,
         data_length_ |-> SizeFor(length),
         data_ |-> [i \in 0 .. (SizeFor(length) - 1) |-> {}]])

\* the copy loop stopping one word early
CopyFrom_DropLast(bv, other_data, other_data_length) ==
  [bv EXCEPT !.data_ =
     [i \in 0 .. (bv.data_length_ - 1) |->
        IF i < other_data_length - 1 THEN other_data[i] ELSE {}]]

\* private CopyFrom(uintptr_t* other_data, int other_data_length)
CopyFrom(bv, other_data, other_data_length) ==
  [bv EXCEPT !.data_ =
     [i \in 0 .. (bv.data_length_ - 1) |->
        IF i < other_data_length THEN other_data[i] ELSE {}]]

Resize(bv, new_length) ==
  LET new_data_length == SizeFor(new_length)
      grown == IF new_data_length > bv.data_length_
               THEN CopyFrom([bv EXCEPT !.data_length_ = new_data_length],
                             bv.data_, bv.data_length_)
               ELSE bv
  IN  [grown EXCEPT !.length_ = new_length]

Contains(bv, i) ==
  LET block == bv.data_[i \div kDataBits]
  IN  BitAnd(block, ShiftLeft(kOne, i % kDataBits)) # {}

\* the mask shifted by i instead of i % kDataBits
Add_NoModulo(bv, i) ==
  [bv EXCEPT !.data_[i \div kDataBits] = BitOr(@, ShiftLeft(kOne, i))]

Add(bv, i) ==
  [bv EXCEPT !.data_[i \div kDataBits] =
     BitOr(@, ShiftLeft(kOne, i % kDataBits))]

\* memset(data_, -1, sizeof(uintptr_t) * data_length_)
AddAll(bv) ==
  [bv EXCEPT !.data_ = [i \in 0 .. (bv.data_length_ - 1) |-> AllOnes]]

Remove(bv, i) ==
  [bv EXCEPT !.data_[i \div kDataBits] =
     BitAnd(@, BitNot(ShiftLeft(kOne, i % kDataBits)))]

Union(bv, other) ==
  [bv EXCEPT !.data_ =
     [i \in 0 .. (bv.data_length_ - 1) |-> BitOr(bv.data_[i], other.data_[i])]]

\* changed assigned on every word, so that the last word decides
UnionIsChanged_LastWord(bv, other) ==
  LET new_data == [i \in 0 .. (bv.data_length_ - 1) |->
                     BitOr(bv.data_[i], other.data_[i])]
      final == bv.data_length_ - 1
  IN  [bv |-> [bv EXCEPT !.data_ = new_data],
       changed |-> new_data[final] # bv.data_[final]]

\* changed is set once any word differs from its old value, and never reset
UnionIsChanged(bv, other) ==
  LET new_data == [i \in 0 .. (bv.data_length_ - 1) |->
                     BitOr(bv.data_[i], other.data_[i])]
  IN  [bv |-> [bv EXCEPT !.data_ = new_data],
       changed |-> \E i \in 0 .. (bv.data_length_ - 1) :
                     new_data[i] # bv.data_[i]]

Intersect(bv, other) ==
  [bv EXCEPT !.data_ =
     [i \in 0 .. (bv.data_length_ - 1) |-> BitAnd(bv.data_[i], other.data_[i])]]

IntersectIsChanged(bv, other) ==
  LET new_data == [i \in 0 .. (bv.data_length_ - 1) |->
                     BitAnd(bv.data_[i], other.data_[i])]
  IN  [bv |-> [bv EXCEPT !.data_ = new_data],
       changed |-> \E i \in 0 .. (bv.data_length_ - 1) :
                     new_data[i] # bv.data_[i]]

\* the complement forgotten
Subtract_NoComplement(bv, other) ==
  [bv EXCEPT !.data_ =
     [i \in 0 .. (bv.data_length_ - 1) |-> BitAnd(bv.data_[i], other.data_[i])]]

Subtract(bv, other) ==
  [bv EXCEPT !.data_ =
     [i \in 0 .. (bv.data_length_ - 1) |->
        BitAnd(bv.data_[i], BitNot(other.data_[i]))]]

IsEmpty(bv) == \A i \in 0 .. (bv.data_length_ - 1) : bv.data_[i] = {}

Equals(bv, other) ==
  \A i \in 0 .. (bv.data_length_ - 1) : bv.data_[i] = other.data_[i]

\* Count(): the sum of the words' population counts
RECURSIVE CountWords(_, _)
CountWords(bv, n) ==
  IF n = 0 THEN 0
  ELSE CountWords(bv, n - 1) + Cardinality(bv.data_[n - 1])

Count(bv) == CountWords(bv, bv.data_length_)

(***************************************************************************)
(* BitVector::Iterator.  An iterator is its three scalar fields; target_   *)
(* is the vector it was constructed on, passed where it is read.           *)
(***************************************************************************)
NoIterator == [current_index_ |-> -1, current_value_ |-> {}, current_ |-> -1]

Done(itr, target) == itr.current_index_ >= target.data_length_

Current(itr) == itr.current_

\* while ((val & 0xFF) == 0) { val >>= 8; current_ += 8; }
RECURSIVE SkipZeroBytes(_, _)
SkipZeroBytes(val, current) ==
  IF BitAnd(val, 0 .. 7) = {}
  THEN SkipZeroBytes(ShiftRight(val, 8), current + 8)
  ELSE [val |-> val, current_ |-> current]

\* the bit counter not advanced with the shift
RECURSIVE SkipZeroBits_NoCount(_, _)
SkipZeroBits_NoCount(val, current) ==
  IF BitAnd(val, kOne) = {}
  THEN SkipZeroBits_NoCount(ShiftRight(val, 1), current)
  ELSE [val |-> val, current_ |-> current]

\* while ((val & 0x1) == 0) { val >>= 1; current_++; }
RECURSIVE SkipZeroBits(_, _)
SkipZeroBits(val, current) ==
  IF BitAnd(val, kOne) = {}
  THEN SkipZeroBits(ShiftRight(val, 1), current + 1)
  ELSE [val |-> val, current_ |-> current]

\* Step 1 of Advance: while the remaining word is zero, move to the next
\* word and set the bit counter to that word's first position; stop in the
\* done state when the words are exhausted.  The loop ends at the first
\* non-zero word after current_index_, or at data_length_ when none is.
NextNonZeroWord(itr, target) ==
  IF itr.current_value_ # {} THEN itr
  ELSE LET later == {k \in (itr.current_index_ + 1) .. (target.data_length_ - 1) :
                       target.data_[k] # {}}
       IN  IF later = {}
           THEN [itr EXCEPT !.current_index_ = target.data_length_]
           ELSE LET index == CHOOSE k \in later : \A m \in later : k <= m
                IN  [current_index_ |-> index,
                     current_value_ |-> target.data_[index],
                     current_ |-> index * kDataBits]

\* Advance(): consume the bit last reported, find the next non-zero word,
\* skip its zero bytes and then its zero bits, and keep the rest of the
\* word shifted past the bit found.
Advance(itr, target) ==
  LET started == [itr EXCEPT !.current_ = @ + 1]
      word == NextNonZeroWord(started, target)
  IN  IF Done(word, target) THEN word
      ELSE LET bytes == SkipZeroBytes(word.current_value_, word.current_)
               bits == SkipZeroBits(bytes.val, bytes.current_)
           IN  [current_index_ |-> word.current_index_,
                current_value_ |-> ShiftRight(bits.val, 1),
                current_ |-> bits.current_]

\* Iterator(BitVector* target): loads data_[0], current_ = -1, Advance()
NewIterator(target) ==
  Advance([current_index_ |-> 0,
           current_value_ |-> target.data_[0],
           current_ |-> -1], target)

(***************************************************************************)
(* State.  a is the vector under test and b the argument of its binary     *)
(* operations; c is a third vector used by the set-algebra specification.  *)
(* it is an iterator over a (NoIterator when none is alive) and yielded    *)
(* the values Current() has returned during its traversal.  last names the *)
(* operation performed last and ret the value it returned, if any.         *)
(***************************************************************************)
VARIABLES a, b, c, it, yielded, last, ret

vars == <<a, b, c, it, yielded, last, ret>>

\* The growable vectors ga and gb and the ghost state of their operations,
\* described with the GrowableBitVector below.
VARIABLES ga, gb, glast, adds, onlyAdds, pc, ec_value, ec_new_length, spins

gvars == <<ga, gb, glast, adds, onlyAdds, pc, ec_value, ec_new_length, spins>>

allvars == <<vars, gvars>>

\* the growable part at rest, in the specifications of the fixed vector
GrowIdle ==
  /\ ga = [bits_ |-> << >>]
  /\ gb = [bits_ |-> << >>]
  /\ glast = "Construct"
  /\ adds = {}
  /\ onlyAdds = TRUE
  /\ pc = "idle"
  /\ ec_value = 0
  /\ ec_new_length = 0
  /\ spins = 0

Lengths == {0, SmallLength, MaxLength}

\* indices at the ends of the lengths and on both sides of a word boundary
Indices == {0, SmallLength - 1, kDataBits - 1, kDataBits, MaxLength - 1}

IndicesB == {0, kDataBits}

Init ==
  /\ \E length \in Lengths : a = NewBitVector(length) /\ b = NewBitVector(length)
  /\ c = NewBitVector(0)
  /\ it = NoIterator
  /\ yielded = << >>
  /\ last = "Construct"
  /\ ret = FALSE
  /\ GrowIdle

\* A mutation of a.  An iterator is a short-lived cursor that any mutation
\* of its target invalidates: the caller mutates only when none is alive.
Mutate(new_a, op, r) ==
  /\ it = NoIterator
  /\ a' = new_a
  /\ last' = op
  /\ ret' = r
  /\ UNCHANGED <<b, c, it, yielded, gvars>>

DoAdd(i) == i < a.length_ /\ Mutate(Add(a, i), "Add", FALSE)

DoRemove(i) == i < a.length_ /\ Mutate(Remove(a, i), "Remove", FALSE)

DoAddAll == Mutate(AddAll(a), "AddAll", FALSE)

DoClear == Mutate(Clear(a), "Clear", FALSE)

DoResize(new_length) ==
  /\ new_length > a.length_
  /\ Mutate(Resize(a, new_length), "Resize", FALSE)

DoUnion == b.length_ = a.length_ /\ Mutate(Union(a, b), "Union", FALSE)

DoIntersect ==
  b.length_ = a.length_ /\ Mutate(Intersect(a, b), "Intersect", FALSE)

DoSubtract ==
  b.length_ = a.length_ /\ Mutate(Subtract(a, b), "Subtract", FALSE)

DoUnionIsChanged ==
  /\ b.length_ = a.length_
  /\ LET r == UnionIsChanged(a, b)
     IN  Mutate(r.bv, "UnionIsChanged", r.changed)

DoIntersectIsChanged ==
  /\ b.length_ = a.length_
  /\ LET r == IntersectIsChanged(a, b)
     IN  Mutate(r.bv, "IntersectIsChanged", r.changed)

\* the argument vector: constructed with a's length, then Add and AddAll
MutateB(new_b) ==
  /\ it = NoIterator
  /\ b' = new_b
  /\ UNCHANGED <<a, c, it, yielded, last, ret, gvars>>

NewB == b.length_ # a.length_ /\ MutateB(NewBitVector(a.length_))

AddB(i) == i < b.length_ /\ MutateB(Add(b, i))

AddAllB == MutateB(AddAll(b))

\* for (Iterator it(&a); !it.Done(); it.Advance()) use(it.Current())
IterBegin ==
  /\ it = NoIterator
  /\ LET fresh == NewIterator(a)
     IN  /\ it' = fresh
         /\ yielded' = IF Done(fresh, a) THEN << >> ELSE <<Current(fresh)>>
  /\ last' = "Iterator"
  /\ ret' = FALSE
  /\ UNCHANGED <<a, b, c, gvars>>

IterAdvance ==
  /\ it # NoIterator
  /\ ~Done(it, a)
  /\ LET next == Advance(it, a)
     IN  /\ it' = next
         /\ yielded' = IF Done(next, a) THEN yielded
                       ELSE Append(yielded, Current(next))
  /\ UNCHANGED <<a, b, c, last, ret, gvars>>

\* the iterator goes out of scope, at the end of the traversal or before
IterEnd ==
  /\ it # NoIterator
  /\ it' = NoIterator
  /\ yielded' = << >>
  /\ UNCHANGED <<a, b, c, last, ret, gvars>>

Next ==
  \/ \E i \in Indices : DoAdd(i)
  \/ \E i \in Indices : DoRemove(i)
  \/ DoAddAll
  \/ DoClear
  \/ \E new_length \in Lengths : DoResize(new_length)
  \/ DoUnion
  \/ DoIntersect
  \/ DoSubtract
  \/ DoUnionIsChanged
  \/ DoIntersectIsChanged
  \/ NewB
  \/ \E i \in IndicesB : AddB(i)
  \/ AddAllB
  \/ IterBegin
  \/ IterAdvance
  \/ IterEnd

Spec == Init /\ [][Next]_allvars

(***************************************************************************)
(* The set algebra: three vectors a, b, c of one length, each built by Add *)
(* and AddAll and combined in place by Union, Intersect and Subtract.      *)
(***************************************************************************)
AlgIndices == {0, kDataBits - 1, kDataBits, MaxLength - 1}

AlgInit ==
  /\ \E length \in Lengths :
       /\ a = NewBitVector(length)
       /\ b = NewBitVector(length)
       /\ c = NewBitVector(length)
  /\ it = NoIterator
  /\ yielded = << >>
  /\ last = "Construct"
  /\ ret = FALSE
  /\ GrowIdle

AlgFrame == UNCHANGED <<it, yielded, ret, gvars>>

AlgAddA(i) ==
  i < a.length_ /\ a' = Add(a, i) /\ last' = "Add" /\ UNCHANGED <<b, c>> /\ AlgFrame

AlgAddB(i) ==
  i < b.length_ /\ b' = Add(b, i) /\ last' = "Add" /\ UNCHANGED <<a, c>> /\ AlgFrame

AlgAddC(i) ==
  i < c.length_ /\ c' = Add(c, i) /\ last' = "Add" /\ UNCHANGED <<a, b>> /\ AlgFrame

AlgAddAllA ==
  a' = AddAll(a) /\ last' = "AddAll" /\ UNCHANGED <<b, c>> /\ AlgFrame

AlgAddAllB ==
  b' = AddAll(b) /\ last' = "AddAll" /\ UNCHANGED <<a, c>> /\ AlgFrame

\* a.Union(b)
AlgUnion ==
  a' = Union(a, b) /\ last' = "Union" /\ UNCHANGED <<b, c>> /\ AlgFrame

\* b.Intersect(c)
AlgIntersect ==
  b' = Intersect(b, c) /\ last' = "Intersect" /\ UNCHANGED <<a, c>> /\ AlgFrame

\* c.Subtract(a)
AlgSubtract ==
  c' = Subtract(c, a) /\ last' = "Subtract" /\ UNCHANGED <<a, b>> /\ AlgFrame

\* c.Clear()
AlgClear ==
  c' = Clear(c) /\ last' = "Clear" /\ UNCHANGED <<a, b>> /\ AlgFrame

AlgNext ==
  \/ \E i \in AlgIndices : AlgAddA(i)
  \/ \E i \in AlgIndices : AlgAddB(i)
  \/ \E i \in AlgIndices : AlgAddC(i)
  \/ AlgAddAllA
  \/ AlgAddAllB
  \/ AlgUnion
  \/ AlgIntersect
  \/ AlgSubtract
  \/ AlgClear

SpecAlgebra == AlgInit /\ [][AlgNext]_allvars

(***************************************************************************)
(* GrowableBitVector.  bits_ is a pointer to a BitVector or nullptr: the   *)
(* empty sequence is nullptr and <<bv>> points to bv.                      *)
(***************************************************************************)
nullptr == << >>

\* GrowableBitVector() : bits_(nullptr)
NewGrowable == [bits_ |-> nullptr]

\* GrowableBitVector(int length, Zone* zone)
NewGrowableOfLength(length) == [bits_ |-> <<NewBitVector(length)>>]

InBitsRange(g, value) ==
  g.bits_ # nullptr /\ g.bits_[1].length_ > value

GrowableContains(g, value) ==
  IF ~InBitsRange(g, value) THEN FALSE ELSE Contains(g.bits_[1], value)

\* growth by exactly the requested amount
DoubleUntilAbove_Exact(new_length, value) ==
  IF new_length <= value THEN value + 1 ELSE new_length

\* while (new_length <= value) new_length *= 2;
RECURSIVE DoubleUntilAbove(_, _)
DoubleUntilAbove(new_length, value) ==
  IF new_length <= value THEN DoubleUntilAbove(new_length * 2, value)
  ELSE new_length

\* the rest of EnsureCapacity once new_length is known
Reallocate(g, new_length) ==
  IF g.bits_ = nullptr
  THEN [bits_ |-> <<NewBitVector(new_length)>>]
  ELSE [bits_ |-> <<Resize(g.bits_[1], new_length)>>]

EnsureCapacity(g, value) ==
  IF InBitsRange(g, value) THEN g
  ELSE Reallocate(g,
         DoubleUntilAbove(IF g.bits_ = nullptr THEN kInitialLength
                          ELSE g.bits_[1].length_, value))

GrowableAdd(g, value) ==
  LET ensured == EnsureCapacity(g, value)
  IN  [bits_ |-> <<Add(ensured.bits_[1], value)>>]

GrowableClear(g) ==
  IF g.bits_ # nullptr THEN [bits_ |-> <<Clear(g.bits_[1])>>] ELSE g

\* The vector a GrowableBitVector::Iterator walks: target's bits_, or a
\* fresh BitVector(1) when target has none.  receiver is the object being
\* mutated by Union; when it is the target itself (aliased) the iterator
\* reads the receiver's current words.
IteratorTarget(receiver, other, aliased) ==
  IF other.bits_ = nullptr THEN NewBitVector(1)
  ELSE IF aliased THEN receiver.bits_[1]
  ELSE other.bits_[1]

\* for (Iterator it(&other, zone); !it.Done(); it.Advance())
\*   Add(it.Current(), zone);
RECURSIVE UnionLoop(_, _, _, _)
UnionLoop(g, itr, other, aliased) ==
  IF Done(itr, IteratorTarget(g, other, aliased)) THEN g
  ELSE LET added == GrowableAdd(g, Current(itr))
       IN  UnionLoop(added,
                     Advance(itr, IteratorTarget(added, other, aliased)),
                     other, aliased)

\* the iterator advanced before its first Current() is used
GrowableUnion_SkipFirst(g, other, aliased) ==
  UnionLoop(g,
            Advance(NewIterator(IteratorTarget(g, other, aliased)),
                    IteratorTarget(g, other, aliased)),
            other, aliased)

GrowableUnion(g, other, aliased) ==
  UnionLoop(g, NewIterator(IteratorTarget(g, other, aliased)), other, aliased)

(***************************************************************************)
(* Two growable vectors ga and gb, both unallocated at first.  glast names *)
(* the last operation on ga.  adds is the set of values passed to ga.Add,  *)
(* kept while onlyAdds holds: no other operation has been applied to ga.   *)
(* The last four variables belong to the step-by-step Add further down.    *)
(***************************************************************************)
GrowValues ==
  {0, kInitialLength - 1, kInitialLength, HighValue, 2 * kInitialLength}

FixedIdle ==
  /\ a = NewBitVector(0)
  /\ b = NewBitVector(0)
  /\ c = NewBitVector(0)
  /\ it = NoIterator
  /\ yielded = << >>
  /\ last = "Construct"
  /\ ret = FALSE

StepIdle ==
  /\ pc = "idle"
  /\ ec_value = 0
  /\ ec_new_length = 0
  /\ spins = 0

GrowInit ==
  /\ FixedIdle
  /\ StepIdle
  /\ ga = NewGrowable
  /\ gb = NewGrowable
  /\ glast = "Construct"
  /\ adds = {}
  /\ onlyAdds = TRUE

GrowFrame == UNCHANGED <<vars, pc, ec_value, ec_new_length, spins>>

GrowAddA(v) ==
  /\ ga' = GrowableAdd(ga, v)
  /\ glast' = "Add"
  /\ adds' = IF onlyAdds THEN adds \cup {v} ELSE adds
  /\ UNCHANGED <<gb, onlyAdds>>
  /\ GrowFrame

\* ga.Union(gb, zone)
GrowUnionAB ==
  /\ ga' = GrowableUnion(ga, gb, FALSE)
  /\ glast' = "Union"
  /\ adds' = {}
  /\ onlyAdds' = FALSE
  /\ UNCHANGED gb
  /\ GrowFrame

\* ga.Union(ga, zone)
GrowUnionAA ==
  /\ ga' = GrowableUnion(ga, ga, TRUE)
  /\ glast' = "UnionSelf"
  /\ adds' = {}
  /\ onlyAdds' = FALSE
  /\ UNCHANGED gb
  /\ GrowFrame

GrowClearA ==
  /\ ga' = GrowableClear(ga)
  /\ glast' = "Clear"
  /\ adds' = {}
  /\ onlyAdds' = FALSE
  /\ UNCHANGED gb
  /\ GrowFrame

GrowAddB(v) ==
  /\ gb' = GrowableAdd(gb, v)
  /\ UNCHANGED <<ga, glast, adds, onlyAdds>>
  /\ GrowFrame

\* gb.Union(ga, zone)
GrowUnionBA ==
  /\ gb' = GrowableUnion(gb, ga, FALSE)
  /\ UNCHANGED <<ga, glast, adds, onlyAdds>>
  /\ GrowFrame

GrowClearB ==
  /\ gb' = GrowableClear(gb)
  /\ UNCHANGED <<ga, glast, adds, onlyAdds>>
  /\ GrowFrame

GrowNext ==
  \/ \E v \in GrowValues : GrowAddA(v)
  \/ GrowUnionAB
  \/ GrowUnionAA
  \/ GrowClearA
  \/ \E v \in GrowValues : GrowAddB(v)
  \/ GrowUnionBA
  \/ GrowClearB

SpecGrow == GrowInit /\ [][GrowNext]_allvars

(***************************************************************************)
(* Add(value, zone) step by step, on a growable vector constructed either  *)
(* unallocated or with an explicit length.  pc is "idle" between calls and *)
(* "loop" inside EnsureCapacity's while loop; ec_value and ec_new_length   *)
(* are the call's value and new_length, and spins is the parity of the     *)
(* number of times the loop body has run in the call.                      *)
(***************************************************************************)
InitialLengths == 0 .. MaxInitialLength

StepValues == 0 .. MaxValue

StepInit ==
  /\ FixedIdle
  /\ StepIdle
  /\ \/ ga = NewGrowable
     \/ \E length \in InitialLengths : ga = NewGrowableOfLength(length)
  /\ gb = NewGrowable
  /\ glast = "Construct"
  /\ adds = {}
  /\ onlyAdds = TRUE

StepFrame == UNCHANGED <<vars, gb, adds, onlyAdds>>

\* EnsureCapacity returns at once: if (InBitsRange(value)) return;
StepAddInRange(v) ==
  /\ pc = "idle"
  /\ InBitsRange(ga, v)
  /\ ga' = [bits_ |-> <<Add(ga.bits_[1], v)>>]
  /\ ec_value' = v
  /\ glast' = "Add"
  /\ UNCHANGED <<pc, ec_new_length, spins>>
  /\ StepFrame

\* int new_length = bits_ == nullptr ? kInitialLength : bits_->length();
StepEnsureBegin(v) ==
  /\ pc = "idle"
  /\ ~InBitsRange(ga, v)
  /\ ec_value' = v
  /\ ec_new_length' = IF ga.bits_ = nullptr THEN kInitialLength
                      ELSE ga.bits_[1].length_
  /\ pc' = "loop"
  /\ spins' = 0
  /\ glast' = "EnsureCapacity"
  /\ UNCHANGED ga
  /\ StepFrame

\* the loop body: new_length *= 2
StepDouble ==
  /\ pc = "loop"
  /\ ec_new_length <= ec_value
  /\ ec_new_length' = ec_new_length * 2
  /\ spins' = 1 - spins
  /\ UNCHANGED <<ga, pc, ec_value, glast>>
  /\ StepFrame

\* the loop has ended: allocate or Resize, then bits_->Add(value)
StepFinish ==
  /\ pc = "loop"
  /\ ec_new_length > ec_value
  /\ ga' = [bits_ |-> <<Add(Reallocate(ga, ec_new_length).bits_[1], ec_value)>>]
  /\ pc' = "idle"
  /\ spins' = 0
  /\ glast' = "Add"
  /\ UNCHANGED <<ec_value, ec_new_length>>
  /\ StepFrame

StepNext ==
  \/ \E v \in StepValues : StepAddInRange(v)
  \/ \E v \in StepValues : StepEnsureBegin(v)
  \/ StepDouble
  \/ StepFinish

\* a call of Add runs to its end: the steps inside it are always taken
SpecStep ==
  /\ StepInit
  /\ [][StepNext]_allvars
  /\ WF_allvars(StepDouble)
  /\ WF_allvars(StepFinish)

(***************************************************************************)
(* Properties of the fixed-length vector, checked under Spec.              *)
(***************************************************************************)

\* the positions of the 1 bits in the words of bv
SetBits(bv) ==
  {w * kDataBits + k : <<w, k>> \in
     {p \in (0 .. (bv.data_length_ - 1)) \X Bits : p[2] \in bv.data_[p[1]]}}

Iterating == it # NoIterator

\* C1: Resize(L2) from a length L1 < L2 keeps Contains(i) for every i < L1
\* and leaves Contains(i) false for every i in [L1, L2).
C1_ResizeKeepsOldAndNewUnset ==
  [][\A new_length \in Lengths :
       (last' = "Resize" /\ DoResize(new_length)) =>
         /\ \A i \in 0 .. (a.length_ - 1) : Contains(a', i) = Contains(a, i)
         /\ \A i \in a.length_ .. (new_length - 1) : ~Contains(a', i)]_vars

\* C2: after Add(i) Contains(i) is true and after Remove(i) it is false; in
\* both cases Contains(j) is unchanged for every other j below the length,
\* and the length is unchanged.
C2_AddRemoveFrame ==
  [][\A i \in Indices :
       /\ (last' = "Add" /\ DoAdd(i)) =>
            /\ Contains(a', i)
            /\ \A j \in (0 .. (a.length_ - 1)) \ {i} :
                 Contains(a', j) = Contains(a, j)
            /\ a'.length_ = a.length_
       /\ (last' = "Remove" /\ DoRemove(i)) =>
            /\ ~Contains(a', i)
            /\ \A j \in (0 .. (a.length_ - 1)) \ {i} :
                 Contains(a', j) = Contains(a, j)
            /\ a'.length_ = a.length_]_vars

\* an Add has just set a bit of the second word beside other set bits
C2_Witness ==
  /\ last = "Add"
  /\ a.length_ = MaxLength
  /\ Contains(a, kDataBits)
  /\ Contains(a, 0)
  /\ ~Contains(a, kDataBits - 1)

\* C3: UnionIsChanged / IntersectIsChanged return false exactly when the
\* receiver's words are left as they were and true otherwise, and the
\* receiver ends up with what Union / Intersect would have produced.
C3_IsChangedIffChanged ==
  [][/\ (last' = "UnionIsChanged" /\ DoUnionIsChanged) =>
          (ret' = (a' # a)) /\ a' = Union(a, b)
     /\ (last' = "IntersectIsChanged" /\ DoIntersectIsChanged) =>
          (ret' = (a' # a)) /\ a' = Intersect(a, b)]_vars

\* UnionIsChanged has just reported a fixed point on a two-word vector
C3_Witness ==
  /\ last = "UnionIsChanged"
  /\ ret = FALSE
  /\ a.data_length_ = 2
  /\ ~IsEmpty(b)
  /\ a # b

StrictlyAscending(seq) ==
  \A k \in 1 .. (Len(seq) - 1) : seq[k] < seq[k + 1]

Range(seq) == {seq[k] : k \in 1 .. Len(seq)}

\* C5: a traversal of an unmutated vector yields strictly ascending indices,
\* never more than Count() of them (so it ends after at most Count() calls
\* of Advance), and once Done() it has yielded exactly the set bits, Count()
\* in number; on a vector with no bit set it is Done() at construction.
C5_TraversalYieldsSetBits ==
  Iterating =>
    /\ StrictlyAscending(yielded)
    /\ Range(yielded) \subseteq SetBits(a)
    /\ Len(yielded) <= Count(a)
    /\ ~Done(it, a) => yielded # << >> /\ Current(it) = yielded[Len(yielded)]
    /\ Done(it, a) => Range(yielded) = SetBits(a) /\ Len(yielded) = Count(a)
    /\ IsEmpty(a) => Done(it, a)

\* a traversal has ended after yielding bits of both words
C5_Witness ==
  /\ Iterating
  /\ Done(it, a)
  /\ Len(yielded) = 3
  /\ yielded[1] < kDataBits
  /\ yielded[3] >= kDataBits

\* C10: every index Current() returns during a traversal is below the
\* length and contained in the vector.
C10_CurrentBelowLength ==
  (Iterating /\ ~Done(it, a)) =>
    /\ 0 <= Current(it)
    /\ Current(it) < a.length_
    /\ Contains(a, Current(it))

(***************************************************************************)
(* Properties of the set algebra, checked under SpecAlgebra.               *)
(***************************************************************************)

\* the empty set of a's length
Empty == NewBitVector(a.length_)

\* C4: compared by Equals, Union and Intersect are commutative and
\* associative, Subtract(A, A) is empty, Union(A, Empty) equals A, and
\* Intersect(A, Empty) is empty.
C4_SetAlgebra ==
  /\ Equals(Union(a, b), Union(b, a))
  /\ Equals(Intersect(a, b), Intersect(b, a))
  /\ Equals(Union(Union(a, b), c), Union(a, Union(b, c)))
  /\ Equals(Intersect(Intersect(a, b), c), Intersect(a, Intersect(b, c)))
  /\ IsEmpty(Subtract(a, a))
  /\ Equals(Union(a, Empty), a)
  /\ IsEmpty(Intersect(a, Empty))

\* three different non-empty two-word operands that overlap without any
\* one containing another
C4_Witness ==
  /\ a.data_length_ = 2
  /\ ~IsEmpty(Intersect(a, b))
  /\ ~Equals(Union(a, b), a)
  /\ ~Equals(Union(a, b), b)
  /\ ~IsEmpty(c)
  /\ ~Equals(Union(a, c), a)
  /\ ~Equals(Union(a, c), Union(a, b))

(***************************************************************************)
(* Properties of the growable vector, checked under SpecGrow.              *)
(***************************************************************************)

\* the backing length, an absent backing vector counting as length 0
GLength(g) == IF g.bits_ = nullptr THEN 0 ELSE g.bits_[1].length_

DoubledLengths == {kInitialLength * (2 ^ k) : k \in 0 .. MaxDoublings}

SmallestDoubledAbove(v) ==
  CHOOSE n \in DoubledLengths :
    n > v /\ \A m \in DoubledLengths : m > v => n <= m

\* The indices probed: the values added, the capacities and an index never
\* added, each with its neighbours and with the same bit of the words
\* beside it and of the first word.
Probes ==
  LET centres == GrowValues \cup DoubledLengths \cup {HighValue \div 4}
  IN  {j \in UNION {{v - 1, v, v + 1, v - kDataBits, v + kDataBits,
                     v % kDataBits} : v \in centres} : j >= 0}

\* C6: after Add calls only, Contains(j) is true exactly for the indices j
\* that were added.
C6_ContainsExactlyAdded ==
  onlyAdds => \A j \in Probes : GrowableContains(ga, j) <=> j \in adds

\* values were added below and above the initial capacity, so that the
\* backing vector has grown
C6_Witness ==
  /\ onlyAdds
  /\ glast = "Add"
  /\ adds = {0, kInitialLength - 1, HighValue}
  /\ GLength(ga) = 2 * kInitialLength

\* the values Add is called with in a step: Add's argument, or the members
\* of gb that a Union adds
AddTargets ==
  {v \in GrowValues :
     \/ glast' = "Add" /\ GrowAddA(v)
     \/ glast' = "Union" /\ GrowUnionAB /\ GrowableContains(gb, v)}

LengthInvariant == ga.bits_ = nullptr \/ GLength(ga) \in DoubledLengths

LengthSteps ==
  /\ GLength(ga') >= GLength(ga)
  /\ GLength(ga') # GLength(ga) => \E v \in AddTargets : v >= GLength(ga)

\* C7 as stated: the backing vector is absent or of length 1024 * 2^k, the
\* length never decreases and changes only when an Add targets an index >=
\* the length, and after Add(i) the length is the smallest 1024 * 2^k > i.
C7_LengthAfterEveryAdd ==
  /\ []LengthInvariant
  /\ [][/\ LengthSteps
        /\ \A v \in GrowValues :
             (glast' = "Add" /\ GrowAddA(v)) =>
               GLength(ga') = SmallestDoubledAbove(v)]_allvars

\* C7 amended: as above, but the length is the smallest 1024 * 2^k > i
\* after an Add(i) with i >= the length before it, and unchanged after any
\* other Add.
C7_LengthAfterGrowingAdd ==
  /\ []LengthInvariant
  /\ [][/\ LengthSteps
        /\ \A v \in GrowValues :
             (glast' = "Add" /\ GrowAddA(v)) =>
               GLength(ga') = IF v >= GLength(ga)
                              THEN SmallestDoubledAbove(v)
                              ELSE GLength(ga)]_allvars

\* Add(2000) has grown the vector past a smaller member to length 2048
C7_Witness ==
  /\ glast = "Add"
  /\ GrowableContains(ga, HighValue)
  /\ GrowableContains(ga, 0)
  /\ GLength(ga) = SmallestDoubledAbove(HighValue)
  /\ GLength(ga) > kInitialLength

\* C8: after A.Union(B) A contains exactly what A or B contained before,
\* and B is unchanged; an unallocated B leaves A as it was, allocated or
\* not.  The same holds when B is A itself.
C8_UnionIsSetUnion ==
  [][/\ (glast' = "Union" /\ GrowUnionAB) =>
          /\ \A j \in Probes :
               GrowableContains(ga', j) <=>
                 (GrowableContains(ga, j) \/ GrowableContains(gb, j))
          /\ \A j \in Probes : GrowableContains(gb', j) <=> GrowableContains(gb, j)
          /\ gb.bits_ = nullptr => ga' = ga
     /\ (glast' = "UnionSelf" /\ GrowUnionAA) =>
          /\ \A j \in Probes :
               GrowableContains(ga', j) <=> GrowableContains(ga, j)
          /\ ga.bits_ = nullptr => ga' = ga]_allvars

\* a Union has grown A to take a member of a B of another capacity
C8_Witness ==
  /\ glast = "Union"
  /\ gb.bits_ # nullptr
  /\ GLength(ga) > GLength(gb)
  /\ GrowableContains(gb, HighValue)
  /\ GrowableContains(ga, HighValue)
  /\ GrowableContains(ga, 2 * kInitialLength)
  /\ ~GrowableContains(gb, 0)
  /\ GrowableContains(ga, 0)

(***************************************************************************)
(* Properties of the step-by-step Add, checked under SpecStep.             *)
(***************************************************************************)

\* C9: Add(i) terminates in every constructible state: the doubling loop
\* of EnsureCapacity ends, and Add returns with a backing length above i.
C9_AddTerminates ==
  /\ (pc = "loop") ~> (pc = "idle")
  /\ []((pc = "idle" /\ glast = "Add") => GLength(ga) > ec_value)

====
